---- MODULE Spec2Model ----
(***************************************************************************)
(* uvstart engine: the backend registry (backend_config.cpp), backend      *)
(* detection, the dispatcher operations and the popen-based execution      *)
(* adapter (engine.cpp), and the exit path of the CLI (cli.cpp).           *)
(*                                                                         *)
(* Representation of std::string:                                          *)
(*  - a name, token, pattern or path is a TLA+ string;  Chars(s) gives its *)
(*    character content as a sequence of atoms, an atom being either one   *)
(*    shell/TOML-significant character or a maximal run of other           *)
(*    characters;                                                          *)
(*  - a text (file content, captured output, diagnostic) is a sequence of  *)
(*    lines, a line being a tuple of string pieces; "" is <<>>.            *)
(***************************************************************************)
EXTENDS Integers, Sequences, FiniteSets, TLC

VARIABLES backends_, fs, manifest, op, arg, resolved, probes, readManifest,
          exec, res, info, escaped, cliExit

vars == <<backends_, fs, manifest, op, arg, resolved, probes, readManifest,
          exec, res, info, escaped, cliExit>>

(* ------------------------------ bounds --------------------------------- *)
MaxManifestLines == 2
MaxPresent == 1
MaxPresentClean == 2
MaxArgs == 2
MaxExit == 1

(* ------------------------- strings and order --------------------------- *)
Alphabet == <<"a","b","c","d","e","f","g","h","i","j","k","l","m",
              "n","o","p","q","r","s","t","u","v","w","x","y","z">>

Rank(c) == CHOOSE i \in 1..Len(Alphabet) : Alphabet[i] = c

Letters(s) ==
    CASE s = "hatch"  -> <<"h","a","t","c","h">>
      [] s = "pdm"    -> <<"p","d","m">>
      [] s = "poetry" -> <<"p","o","e","t","r","y">>
      [] s = "rye"    -> <<"r","y","e">>
      [] s = "uv"     -> <<"u","v">>
      [] s = "conda"  -> <<"c","o","n","d","a">>
      [] OTHER        -> <<>>

RECURSIVE LexLess(_, _)
LexLess(x, y) ==
    IF y = <<>> THEN FALSE
    ELSE IF x = <<>> THEN TRUE
    ELSE IF Rank(Head(x)) # Rank(Head(y)) THEN Rank(Head(x)) < Rank(Head(y))
    ELSE LexLess(Tail(x), Tail(y))

StrLess(a, b) == LexLess(Letters(a), Letters(b))

Chars(s) ==
    CASE s = "[tool.uv]"    -> <<"[tool.", "uv", "]">>
      [] s = "[tool.hatch"  -> <<"[tool.", "hatch">>
      [] s = "my pkg"       -> <<"my", " ", "pkg">>
      [] s = "x;id"         -> <<"x", ";", "id">>
      [] s = "say \"hi\""   -> <<"say", " ", "\"", "hi", "\"">>
      [] s = ""             -> <<>>
      [] OTHER              -> <<s>>

Find(content, pattern) ==
    \E i \in 1..(Len(content) - Len(pattern) + 1) :
        SubSeq(content, i, i + Len(pattern) - 1) = pattern

(* ------------------------------ catalog -------------------------------- *)
BackendConfig(name, detection_files, detection_patterns, install_url, add_cmd, add_dev_cmd, remove_cmd, sync_cmd, sync_dev_cmd, run_cmd, list_cmd, version_cmd, clean_files) ==
    [name |-> name,
     detection_files |-> detection_files,
     detection_patterns |-> detection_patterns,
     install_url |-> install_url,
     add_cmd |-> add_cmd, add_dev_cmd |-> add_dev_cmd,
     remove_cmd |-> remove_cmd,
     sync_cmd |-> sync_cmd, sync_dev_cmd |-> sync_dev_cmd,
     run_cmd |-> run_cmd, list_cmd |-> list_cmd, version_cmd |-> version_cmd,
     clean_files |-> clean_files]

PdmConfig ==
    BackendConfig("pdm", <<"pdm.lock">>, <<>>,
        "curl -sSL https://pdm-project.org/install-pdm.py | python3 -",
        <<"pdm", "add">>, <<"pdm", "add", "--dev">>, <<"pdm", "remove">>,
        <<"pdm", "sync">>, <<"pdm", "sync", "--dev">>, <<"pdm", "run">>,
        <<"pdm", "list">>, <<"pdm", "--version">>,
        <<"pdm.lock", ".pdm-python", "__pypackages__">>)

UvConfig ==
    BackendConfig("uv", <<"uv.lock", "__pypackages__">>, <<"[tool.uv]">>,
        "curl -LsSf https://astral.sh/uv/install.sh | sh",
        <<"uv", "add">>, <<"uv", "add", "--group", "dev">>, <<"uv", "remove">>,
        <<"uv", "sync">>, <<"uv", "sync", "--group", "dev">>, <<"uv", "run">>,
        <<"uv", "pip", "list">>, <<"uv", "--version">>,
        <<"uv.lock", "__pypackages__">>)

PoetryConfig ==
    BackendConfig("poetry", <<"poetry.lock">>, <<"poetry">>,
        "curl -sSL https://install.python-poetry.org | python3 -",
        <<"poetry", "add">>, <<"poetry", "add", "--group", "dev">>,
        <<"poetry", "remove">>,
        <<"poetry", "install">>, <<"poetry", "install", "--with", "dev">>,
        <<"poetry", "run">>, <<"poetry", "show">>, <<"poetry", "--version">>,
        <<"poetry.lock", ".venv">>)

RyeConfig ==
    BackendConfig("rye", <<"requirements.lock">>, <<>>,
        "curl -sSf https://rye-up.com/get | bash",
        <<"rye", "add">>, <<"rye", "add", "--dev">>, <<"rye", "remove">>,
        <<"rye", "sync">>, <<"rye", "sync">>, <<"rye", "run">>,
        <<"rye", "list">>, <<"rye", "--version">>,
        <<"requirements.lock", ".venv">>)

HatchConfig ==
    BackendConfig("hatch", <<"hatch.lock">>, <<"[tool.hatch">>,
        "pipx install hatch",
        <<"hatch", "add">>, <<"hatch", "add", "--dev">>, <<"hatch", "remove">>,
        <<"hatch", "dep", "sync">>, <<"hatch", "dep", "sync">>,
        <<"hatch", "run">>, <<"hatch", "dep", "show">>,
        <<"hatch", "--version">>,
        <<".venv">>)

\* the registrations of initialize_default_backends, in declaration order
Declared ==
    << [key |-> "pdm",    config |-> PdmConfig],
       [key |-> "uv",     config |-> UvConfig],
       [key |-> "poetry", config |-> PoetryConfig],
       [key |-> "rye",    config |-> RyeConfig],
       [key |-> "hatch",  config |-> HatchConfig] >>

EmptyMap == [k \in {} |-> PdmConfig]

\* mutant: the assignment replaces the whole table by the new entry
register_backend_clobber(m, name, config) == [k \in {name} |-> config]

\* backends_[name] = std::move(config)
register_backend(m, name, config) ==
    [k \in (DOMAIN m) \cup {name} |-> IF k = name THEN config ELSE m[k]]

RECURSIVE RegisterAll(_, _, _)
RegisterAll(m, decl, i) ==
    IF i > Len(decl) THEN m
    ELSE RegisterAll(register_backend(m, decl[i].key, decl[i].config), decl, i + 1)

initialize_default_backends == RegisterAll(EmptyMap, Declared, 1)

\* mutant: an unknown name falls back to the first registered descriptor
get_backend_fallback(m, name) ==
    IF name \in DOMAIN m THEN [found |-> TRUE, config |-> m[name]]
    ELSE [found |-> TRUE, config |-> PdmConfig]

\* nullptr is modelled by the flag found = FALSE
get_backend(m, name) ==
    IF name \in DOMAIN m THEN [found |-> TRUE, config |-> m[name]]
    ELSE [found |-> FALSE, config |-> PdmConfig]

\* iteration order of std::map<std::string, ...>: ascending operator< on keys
RECURSIVE SortKeys(_)
SortKeys(S) ==
    IF S = {} THEN <<>>
    ELSE LET k == CHOOSE x \in S : \A y \in S \ {x} : StrLess(x, y)
         IN  <<k>> \o SortKeys(S \ {k})

get_all_backends_declared(m) ==
    SelectSeq([i \in 1..Len(Declared) |-> Declared[i].key], LAMBDA k : k \in DOMAIN m)

get_all_backends(m) == SortKeys(DOMAIN m)

get_backend_names(m) == get_all_backends(m)

(* ----------------------------- filesystem ------------------------------ *)
Manifest == "pyproject.toml"

Entries == {"pdm.lock", "uv.lock", "__pypackages__", "poetry.lock",
            "requirements.lock", "hatch.lock", ".pdm-python", ".venv",
            Manifest}

\* absent: no such entry;  present: exists, readable, deletable;
\* undeletable: exists but remove_all fails;  staterror: status() of the path
\* fails with an error other than not-found (e.g. ELOOP);  unreadable: exists
\* but cannot be opened for reading.
Status == {"absent", "present", "undeletable", "staterror", "unreadable"}

\* std::filesystem::exists(path): "true", "false", or "throw" (filesystem_error)
file_exists(f, name) ==
    CASE f[name] = "absent"    -> "false"
      [] f[name] = "staterror" -> "throw"
      [] OTHER                 -> "true"

\* std::ifstream: "" when the file cannot be opened
read_file(f, content, name) ==
    IF f[name] \in {"present", "undeletable"} THEN content ELSE <<>>

\* candidate lines of pyproject.toml, as atoms
ManifestLines ==
    { <<"[project]">>,
      <<"[tool.", "uv", "]">>,
      <<"[tool.", "uv", ".sources", "]">>,
      <<"[tool.", "poetry", "]">>,
      <<"requires = [\"", "poetry", "-core\"]">>,
      <<"[tool.", "hatch", ".envs", "]">> }

RECURSIVE Texts(_)
Texts(n) ==
    IF n = 0 THEN {<<>>}
    ELSE LET T == Texts(n - 1)
         IN  T \cup {t \o l : t \in T, l \in ManifestLines}

Manifests == Texts(MaxManifestLines)

\* the empty manifest and the manifests of one line
SampleManifests == {<<>>} \cup ManifestLines

(* ------------------------------ detection ------------------------------ *)
\* the (backend, item) pairs visited by the two nested loops, in visiting order
RECURSIVE Visits(_, _, _, _)
Visits(m, order, i, field) ==
    IF i > Len(order) THEN <<>>
    ELSE LET items == IF field = "files" THEN m[order[i]].detection_files
                      ELSE m[order[i]].detection_patterns
         IN  [j \in 1..Len(items) |-> [name |-> order[i], item |-> items[j]]]
             \o Visits(m, order, i + 1, field)

RECURSIVE FirstPass(_, _, _, _)
FirstPass(v, k, f, seen) ==
    IF k > Len(v) THEN [kind |-> "none", name |-> "", probes |-> seen]
    ELSE LET e == file_exists(f, v[k].item)
             s == Append(seen, v[k].item)
         IN  CASE e = "throw" -> [kind |-> "throw", name |-> "", probes |-> s]
               [] e = "true"  -> [kind |-> "value", name |-> v[k].name, probes |-> s]
               [] OTHER       -> FirstPass(v, k + 1, f, s)

RECURSIVE SecondPass(_, _, _)
SecondPass(v, k, content) ==
    IF k > Len(v) THEN [kind |-> "none", name |-> ""]
    ELSE IF Find(content, Chars(v[k].item))
         THEN [kind |-> "value", name |-> v[k].name]
         ELSE SecondPass(v, k + 1, content)

\* mutant: the manifest patterns are tried before the detection files
PatternsFirst(p2, p1) ==
    IF p2.kind = "value"
    THEN [kind |-> "value", name |-> p2.name, probes |-> <<Manifest>>,
          read |-> TRUE]
    ELSE [kind |-> p1.kind, name |-> p1.name, probes |-> p1.probes,
          read |-> FALSE]

detect_backend_manifest_first(m, f, content) ==
    PatternsFirst(
        IF file_exists(f, Manifest) = "true"
        THEN SecondPass(Visits(m, get_all_backends(m), 1, "patterns"), 1,
                        read_file(f, content, Manifest))
        ELSE [kind |-> "none", name |-> ""],
        FirstPass(Visits(m, get_all_backends(m), 1, "files"), 1, f, <<>>))

\* second pass: the manifest exists (probes s made so far) and was read once
PatternResult(p2, s) ==
    [kind |-> p2.kind, name |-> p2.name, probes |-> s, read |-> TRUE]

ManifestPass(m, f, content, s) ==
    CASE file_exists(f, Manifest) = "throw" ->
            [kind |-> "throw", name |-> "", probes |-> s, read |-> FALSE]
      [] file_exists(f, Manifest) = "false" ->
            [kind |-> "none", name |-> "", probes |-> s, read |-> FALSE]
      [] OTHER ->
            PatternResult(SecondPass(Visits(m, get_all_backends(m), 1, "patterns"),
                                     1, read_file(f, content, Manifest)), s)

\* p1 is the outcome of the first pass
AfterFirstPass(m, f, content, p1) ==
    IF p1.kind # "none"
    THEN [kind |-> p1.kind, name |-> p1.name, probes |-> p1.probes,
          read |-> FALSE]
    ELSE ManifestPass(m, f, content, Append(p1.probes, Manifest))

\* kind: "value" (name returned), "none" (std::nullopt), "throw" (exception)
detect_backend(m, f, content) ==
    AfterFirstPass(m, f, content,
                   FirstPass(Visits(m, get_all_backends(m), 1, "files"), 1, f, <<>>))

(* ------------------------- execution adapter --------------------------- *)
OperationResult(success, output, error, exit_code) ==
    [success |-> success, output |-> output, error |-> error,
     exit_code |-> exit_code]

Text(s) == << <<s>> >>

\* the command string built by the loop of execute_command, as atoms
RECURSIVE CmdString(_, _)
CmdString(command, i) ==
    IF i > Len(command) THEN <<>>
    ELSE LET c == Chars(command[i])
             sep == IF i > 1 THEN <<" ">> ELSE <<>>
             word == IF \E k \in 1..Len(c) : c[k] = " "
                     THEN <<"\"">> \o c \o <<"\"">>
                     ELSE c
         IN  sep \o word \o CmdString(command, i + 1)

\* popen runs /bin/sh -c cmd_str: the shell splits the string into simple
\* commands at unquoted ';' and into words at unquoted blanks; '"' opens and
\* closes a quoted stretch and is removed.  An unterminated quote or an empty
\* command before ';' is a syntax error (nothing runs, sh exits with 2).
RECURSIVE Sh(_, _, _, _, _, _, _)
Sh(s, i, inQuote, word, hasWord, words, cmds) ==
    LET ws == IF hasWord THEN Append(words, word) ELSE words
    IN  IF i > Len(s)
        THEN IF inQuote THEN [ok |-> FALSE, cmds |-> <<>>]
             ELSE [ok |-> TRUE,
                   cmds |-> IF ws = <<>> THEN cmds ELSE Append(cmds, ws)]
        ELSE CASE s[i] = "\"" ->
                    Sh(s, i + 1, ~inQuote, word, TRUE, words, cmds)
               [] s[i] # "\"" /\ inQuote ->
                    Sh(s, i + 1, inQuote, Append(word, s[i]), TRUE, words, cmds)
               [] s[i] = " " /\ ~inQuote ->
                    Sh(s, i + 1, inQuote, <<>>, FALSE, ws, cmds)
               [] s[i] = ";" /\ ~inQuote ->
                    IF ws = <<>> THEN [ok |-> FALSE, cmds |-> <<>>]
                    ELSE Sh(s, i + 1, inQuote, <<>>, FALSE, <<>>, Append(cmds, ws))
               [] OTHER ->
                    Sh(s, i + 1, inQuote, Append(word, s[i]), TRUE, words, cmds)

ShellParse(s) == Sh(s, 1, FALSE, <<>>, FALSE, <<>>, <<>>)

\* the value pclose returns for a child that exited with code c
WaitStatus(c) == c * 256

ExitCodes == (0..MaxExit) \cup {255}

Outputs == {<<>>, Text("out\n")}

\* what the environment decides about one popen: whether the pipe/fork
\* succeeded, the exit code of the commands run and what they print on stdout
Child ==
    {[launched |-> FALSE, exit |-> 0, out |-> <<>>]}
    \cup [launched : {TRUE}, exit : ExitCodes, out : Outputs]

execute_command(command, child) ==
    IF command = <<>>
    THEN [result |-> OperationResult(FALSE, <<>>, Text("Empty command"), 1),
          calls |-> <<>>]
    ELSE LET cmd_str == CmdString(command, 1)
             sh == ShellParse(cmd_str)
         IN  IF ~child.launched
             THEN [result |-> OperationResult(FALSE, <<>>,
                                  Text("Failed to execute command"), 1),
                   calls |-> << [command |-> command, cmd_str |-> cmd_str,
                                 launched |-> FALSE, ran |-> <<>>,
                                 exit |-> 0] >>]
             ELSE LET code == IF sh.ok THEN child.exit ELSE 2
                      output == IF sh.ok THEN child.out ELSE <<>>
                      exit_code == WaitStatus(code)
                      success == (exit_code = 0)
                  IN  [result |-> OperationResult(success, output,
                                      IF success THEN <<>> ELSE output,
                                      exit_code),
                       calls |-> << [command |-> command, cmd_str |-> cmd_str,
                                     launched |-> TRUE, ran |-> sh.cmds,
                                     exit |-> code] >>]

\* mutant: the arguments are inserted at the front of the template
substitute_placeholders_front(cmd_template, args) == args \o cmd_template

substitute_placeholders(cmd_template, args) == cmd_template \o args

\* the value main returns becomes the exit status of the process (low 8 bits)
ExitStatus(code) == code % 256

(* ------------------------------ dispatcher ----------------------------- *)
\* mutant: detection runs first and the hint is only a fallback
DetectedOr(detected, backend) ==
    [kind |-> IF detected.kind = "throw" THEN "throw" ELSE "value",
     id |-> IF detected.kind = "value" THEN detected.name ELSE backend,
     probes |-> detected.probes, read |-> detected.read]

resolve_backend_detect_first(m, f, content, backend) ==
    DetectedOr(detect_backend(m, f, content), backend)

\* mutant: a project without any signal is treated as a uv project
resolve_backend_default(m, f, content, backend) ==
    IF backend # ""
    THEN [kind |-> "value", id |-> backend, probes |-> <<>>, read |-> FALSE]
    ELSE DetectedOr(detect_backend(m, f, content), "uv")

\* return detected ? *detected : ""
Detected(detected) ==
    [kind |-> IF detected.kind = "throw" THEN "throw" ELSE "value",
     id |-> IF detected.kind = "value" THEN detected.name ELSE "",
     probes |-> detected.probes, read |-> detected.read]

resolve_backend(m, f, content, backend) ==
    IF backend # ""
    THEN [kind |-> "value", id |-> backend, probes |-> <<>>, read |-> FALSE]
    ELSE Detected(detect_backend(m, f, content))

DefaultResult == OperationResult(TRUE, <<>>, <<>>, 0)

NoBackend == OperationResult(FALSE, <<>>, Text("No backend found or specified"), 1)

NotFound(id) == OperationResult(FALSE, <<>>, << <<"Backend not found: ", id>> >>, 1)

\* outcome of one Engine call: the value returned (or the exception escaping),
\* with what the call did to the execution service and the filesystem
Outcome(r, f, result, calls) ==
    [kind |-> IF r.kind = "throw" THEN "throw" ELSE "return",
     resolved |-> r.id, probes |-> r.probes, read |-> r.read,
     result |-> result, exec |-> calls, fs |-> f]

\* the result of execute_command is returned unchanged
Executed(r, f, x) == Outcome(r, f, x.result, x.calls)

\* r is the value of resolve_backend(backend)
add_package_as(m, f, package, dev, child, r) ==
    LET c == get_backend(m, r.id)
    IN  IF r.kind = "throw" THEN Outcome(r, f, DefaultResult, <<>>)
        ELSE IF r.id = "" THEN Outcome(r, f, NoBackend, <<>>)
        ELSE IF ~c.found THEN Outcome(r, f, NotFound(r.id), <<>>)
        ELSE Executed(r, f,
                 execute_command(
                     substitute_placeholders(
                         IF dev THEN c.config.add_dev_cmd ELSE c.config.add_cmd,
                         <<package>>),
                     child))

add_package(m, f, content, package, dev, backend, child) ==
    add_package_as(m, f, package, dev, child,
                   resolve_backend(m, f, content, backend))

remove_package_as(m, f, package, child, r) ==
    LET c == get_backend(m, r.id)
    IN  IF r.kind = "throw" THEN Outcome(r, f, DefaultResult, <<>>)
        ELSE IF r.id = "" THEN Outcome(r, f, NoBackend, <<>>)
        ELSE IF ~c.found THEN Outcome(r, f, NotFound(r.id), <<>>)
        ELSE Executed(r, f,
                 execute_command(
                     substitute_placeholders(c.config.remove_cmd, <<package>>),
                     child))

remove_package(m, f, content, package, backend, child) ==
    remove_package_as(m, f, package, child,
                      resolve_backend(m, f, content, backend))

sync_packages_as(m, f, dev, child, r) ==
    LET c == get_backend(m, r.id)
    IN  IF r.kind = "throw" THEN Outcome(r, f, DefaultResult, <<>>)
        ELSE IF r.id = "" THEN Outcome(r, f, NoBackend, <<>>)
        ELSE IF ~c.found THEN Outcome(r, f, NotFound(r.id), <<>>)
        ELSE Executed(r, f,
                 execute_command(
                     substitute_placeholders(
                         IF dev THEN c.config.sync_dev_cmd ELSE c.config.sync_cmd,
                         <<>>),
                     child))

sync_packages(m, f, content, dev, backend, child) ==
    sync_packages_as(m, f, dev, child, resolve_backend(m, f, content, backend))

run_command_as(m, f, command, child, r) ==
    LET c == get_backend(m, r.id)
    IN  IF r.kind = "throw" THEN Outcome(r, f, DefaultResult, <<>>)
        ELSE IF r.id = "" THEN Outcome(r, f, NoBackend, <<>>)
        ELSE IF ~c.found THEN Outcome(r, f, NotFound(r.id), <<>>)
        ELSE Executed(r, f, execute_command(c.config.run_cmd \o command, child))

run_command(m, f, content, command, backend, child) ==
    run_command_as(m, f, command, child, resolve_backend(m, f, content, backend))

list_packages_as(m, f, child, r) ==
    LET c == get_backend(m, r.id)
    IN  IF r.kind = "throw" THEN Outcome(r, f, DefaultResult, <<>>)
        ELSE IF r.id = "" THEN Outcome(r, f, NoBackend, <<>>)
        ELSE IF ~c.found THEN Outcome(r, f, NotFound(r.id), <<>>)
        ELSE Executed(r, f, execute_command(c.config.list_cmd, child))

list_packages(m, f, content, backend, child) ==
    list_packages_as(m, f, child, resolve_backend(m, f, content, backend))

get_version_as(m, f, child, r) ==
    LET c == get_backend(m, r.id)
    IN  IF r.kind = "throw" THEN Outcome(r, f, DefaultResult, <<>>)
        ELSE IF r.id = "" THEN Outcome(r, f, NoBackend, <<>>)
        ELSE IF ~c.found THEN Outcome(r, f, NotFound(r.id), <<>>)
        ELSE Executed(r, f, execute_command(c.config.version_cmd, child))

get_version(m, f, content, backend, child) ==
    get_version_as(m, f, child, resolve_backend(m, f, content, backend))

\* the message of the exception caught in the loop of clean_project
What(f, file) ==
    IF f[file] = "staterror" THEN "filesystem error: cannot get file status"
    ELSE "filesystem error: cannot remove all"

\* mutant: the loop stops at the first path that cannot be removed
RECURSIVE CleanLoop_stop(_, _, _, _, _)
CleanLoop_stop(files, k, f, output, success) ==
    IF k > Len(files) THEN [fs |-> f, output |-> output, success |-> success]
    ELSE LET file == files[k]
         IN  CASE file_exists(f, file) = "false" ->
                    CleanLoop_stop(files, k + 1, f, output, success)
               [] file_exists(f, file) = "true" /\ f[file] # "undeletable" ->
                    CleanLoop_stop(files, k + 1, [f EXCEPT ![file] = "absent"],
                                   Append(output, <<"Removed: ", file, "\n">>),
                                   success)
               [] OTHER ->
                    [fs |-> f,
                     output |-> Append(output, <<"Failed to remove ", file, ": ",
                                                 What(f, file), "\n">>),
                     success |-> FALSE]

\* the for loop of clean_project over config->clean_files
RECURSIVE CleanLoop(_, _, _, _, _)
CleanLoop(files, k, f, output, success) ==
    IF k > Len(files) THEN [fs |-> f, output |-> output, success |-> success]
    ELSE LET file == files[k]
         IN  CASE file_exists(f, file) = "false" ->
                    CleanLoop(files, k + 1, f, output, success)
               [] file_exists(f, file) = "true" /\ f[file] # "undeletable" ->
                    CleanLoop(files, k + 1, [f EXCEPT ![file] = "absent"],
                              Append(output, <<"Removed: ", file, "\n">>),
                              success)
               [] OTHER ->
                    CleanLoop(files, k + 1, f,
                              Append(output, <<"Failed to remove ", file, ": ",
                                               What(f, file), "\n">>),
                              FALSE)

\* l is the state of the loop variables after the last path
Cleaned(r, l) ==
    Outcome(r, l.fs,
            OperationResult(l.success, l.output, <<>>, IF l.success THEN 0 ELSE 1),
            <<>>)

clean_project_as_detection(m, f, r) ==
    LET c == get_backend(m, r.id)
    IN  IF r.kind = "throw" THEN Outcome(r, f, DefaultResult, <<>>)
        ELSE IF r.id = "" THEN Outcome(r, f, NoBackend, <<>>)
        ELSE IF ~c.found THEN Outcome(r, f, NotFound(r.id), <<>>)
        ELSE Cleaned(r, CleanLoop(c.config.detection_files, 1, f, <<>>, TRUE))

clean_project_as(m, f, r) ==
    LET c == get_backend(m, r.id)
    IN  IF r.kind = "throw" THEN Outcome(r, f, DefaultResult, <<>>)
        ELSE IF r.id = "" THEN Outcome(r, f, NoBackend, <<>>)
        ELSE IF ~c.found THEN Outcome(r, f, NotFound(r.id), <<>>)
        ELSE Cleaned(r, CleanLoop(c.config.clean_files, 1, f, <<>>, TRUE))

clean_project(m, f, content, backend) ==
    clean_project_as(m, f, resolve_backend(m, f, content, backend))

\* the value of a lookup before any lookup was made
NoInfo == [install |-> "", files |-> <<>>]

get_install_command_unchecked(m, backend) == get_backend(m, backend).config.install_url

\* config ? config->install_url : ""
get_install_command(m, backend) ==
    IF get_backend(m, backend).found
    THEN get_backend(m, backend).config.install_url
    ELSE ""

\* config ? config->clean_files : {}
get_clean_files(m, backend) ==
    IF get_backend(m, backend).found
    THEN get_backend(m, backend).config.clean_files
    ELSE <<>>

(* ------------------------------- inputs -------------------------------- *)
Registered == {Declared[i].key : i \in 1..Len(Declared)}

\* --backend values: none given, registered ids, an unregistered id
Hints == {"", "conda", "pdm", "poetry", "uv"}

Packages == {"requests", "my pkg", "x;id", "say \"hi\""}

ArgTokens == {"pytest", "-v"}

RECURSIVE Argvs(_)
Argvs(n) ==
    IF n = 1 THEN {<<t>> : t \in ArgTokens}
    ELSE LET A == Argvs(n - 1)
         IN  A \cup {Append(a, t) : a \in A, t \in ArgTokens}

Arg(backend, dev, args) == [backend |-> backend, dev |-> dev, args |-> args]

\* args[0] of install-cmd and clean-files: any registered id, an unregistered one
LookupIds == Registered \cup {"conda"}

(* -------------------------------- states ------------------------------- *)
\* the states a project entry is drawn from: any entry may resist removal
Allowed ==
    [e \in Entries |->
        CASE e = Manifest                   -> {"present", "unreadable"}
          [] e \in {".venv", ".pdm-python"} -> {"present", "undeletable", "staterror"}
          [] OTHER                          -> {"present", "undeletable"}]

\* the states a project entry is drawn from: only .venv may resist removal
AllowedVenv ==
    [e \in Entries |->
        CASE e = Manifest -> {"present", "unreadable"}
          [] e = ".venv"  -> {"present", "undeletable"}
          [] OTHER        -> {"present"}]

\* the states a project entry is drawn from: any entry's status may be
\* impossible to obtain (a symbolic link loop, a component without search
\* permission)
AllowedFault ==
    [e \in Entries |->
        CASE e = Manifest -> {"present", "unreadable", "staterror"}
          [] OTHER        -> {"present", "staterror"}]

\* project directories with at most n entries, each in a state of A
Projects(n, A) ==
    UNION { { [e \in Entries |-> IF e \in S THEN g[e] ELSE "absent"] :
              g \in {h \in [S -> Status] : \A e \in S : h[e] \in A[e]} } :
            S \in {T \in SUBSET Entries : Cardinality(T) <= n} }

\* project directories with any set of entries, all deletable
AllProjects ==
    { [e \in Entries |-> IF e = Manifest THEN ms
                         ELSE IF e \in S THEN "present" ELSE "absent"] :
      S \in SUBSET (Entries \ {Manifest}), ms \in {"absent"} \cup Allowed[Manifest] }

InitEngine(P, M) ==
    /\ backends_ = initialize_default_backends
    /\ fs \in P
    /\ manifest \in (IF fs[Manifest] = "present" THEN M ELSE {<<>>})
    /\ op = "none"
    /\ arg = Arg("", FALSE, <<>>)
    /\ resolved = ""
    /\ probes = <<>>
    /\ readManifest = FALSE
    /\ exec = <<>>
    /\ res = DefaultResult
    /\ info = NoInfo
    /\ escaped = FALSE
    /\ cliExit = 0

(* ------------------------------- actions ------------------------------- *)
\* the state after one Engine call made by main, and main's exit status
Call(name, a, o) ==
    /\ op = "none"
    /\ op' = name
    /\ arg' = a
    /\ resolved' = o.resolved
    /\ probes' = o.probes
    /\ readManifest' = o.read
    /\ exec' = o.exec
    /\ res' = o.result
    /\ info' = NoInfo
    /\ escaped' = (o.kind = "throw")
    /\ cliExit' = IF o.kind = "throw" THEN 134 ELSE ExitStatus(o.result.exit_code)
    /\ fs' = o.fs
    /\ UNCHANGED <<backends_, manifest>>

\* the detect command; d is the value of engine.detect_backend()
DetectCall(d) ==
    /\ op = "none"
    /\ op' = "detect"
    /\ arg' = Arg("", FALSE, <<>>)
    /\ resolved' = d.name
    /\ probes' = d.probes
    /\ readManifest' = d.read
    /\ exec' = <<>>
    /\ res' = DefaultResult
    /\ info' = NoInfo
    /\ escaped' = (d.kind = "throw")
    /\ cliExit' = CASE d.kind = "throw" -> 134
                    [] d.kind = "value" -> 0
                    [] OTHER            -> 1
    /\ UNCHANGED <<backends_, fs, manifest>>

Detect == DetectCall(detect_backend(backends_, fs, manifest))

Add ==
    \E package \in Packages, dev \in BOOLEAN, backend \in Hints, child \in Child :
        Call("add", Arg(backend, dev, <<package>>),
             add_package(backends_, fs, manifest, package, dev, backend, child))

Remove ==
    \E package \in Packages, backend \in Hints, child \in Child :
        Call("remove", Arg(backend, FALSE, <<package>>),
             remove_package(backends_, fs, manifest, package, backend, child))

Sync ==
    \E dev \in BOOLEAN, backend \in Hints, child \in Child :
        Call("sync", Arg(backend, dev, <<>>),
             sync_packages(backends_, fs, manifest, dev, backend, child))

Run ==
    \E command \in Argvs(MaxArgs), backend \in Hints, child \in Child :
        Call("run", Arg(backend, FALSE, command),
             run_command(backends_, fs, manifest, command, backend, child))

List ==
    \E backend \in Hints, child \in Child :
        Call("list", Arg(backend, FALSE, <<>>),
             list_packages(backends_, fs, manifest, backend, child))

Version ==
    \E backend \in Hints, child \in Child :
        Call("version", Arg(backend, FALSE, <<>>),
             get_version(backends_, fs, manifest, backend, child))

Clean ==
    \E backend \in Hints :
        Call("clean", Arg(backend, FALSE, <<>>),
             clean_project(backends_, fs, manifest, backend))

\* install-cmd and clean-files: one registry lookup, then main returns code
Lookup(name, backend, i, code) ==
    /\ op = "none"
    /\ op' = name
    /\ arg' = Arg("", FALSE, <<backend>>)
    /\ info' = i
    /\ cliExit' = code
    /\ UNCHANGED <<backends_, fs, manifest, resolved, probes, readManifest,
                   exec, res, escaped>>

InstallCmd ==
    \E backend \in LookupIds :
        Lookup("install-cmd", backend,
               [NoInfo EXCEPT !.install = get_install_command(backends_, backend)],
               IF get_install_command(backends_, backend) = "" THEN 1 ELSE 0)

CleanFiles ==
    \E backend \in LookupIds :
        Lookup("clean-files", backend,
               [NoInfo EXCEPT !.files = get_clean_files(backends_, backend)], 0)

\* a second engine.clean_project(backend), made with the same hint as soon
\* as the first has returned; o is its value
Again(o) ==
    /\ op = "clean"
    /\ ~escaped
    /\ op' = "clean-again"
    /\ resolved' = o.resolved
    /\ probes' = o.probes
    /\ readManifest' = o.read
    /\ exec' = o.exec
    /\ res' = o.result
    /\ escaped' = (o.kind = "throw")
    /\ cliExit' = IF o.kind = "throw" THEN 134 ELSE ExitStatus(o.result.exit_code)
    /\ fs' = o.fs
    /\ UNCHANGED <<backends_, manifest, arg, info>>

CleanAgain == Again(clean_project(backends_, fs, manifest, arg.backend))

\* the call has returned and its result was consumed; the next command
\* starts from main's initial result and the project as the last call left it
Finish ==
    /\ op # "none"
    /\ op' = "none"
    /\ arg' = Arg("", FALSE, <<>>)
    /\ resolved' = ""
    /\ probes' = <<>>
    /\ readManifest' = FALSE
    /\ exec' = <<>>
    /\ res' = DefaultResult
    /\ info' = NoInfo
    /\ escaped' = FALSE
    /\ cliExit' = 0
    /\ UNCHANGED <<backends_, fs, manifest>>

(* ---------------------------- specifications --------------------------- *)
\* every command of the CLI, on small projects
Init == InitEngine(Projects(MaxPresent, AllowedVenv), SampleManifests)

Next ==
    \/ Detect \/ Add \/ Remove \/ Sync \/ Run \/ List \/ Version \/ Clean
    \/ InstallCmd \/ CleanFiles \/ Finish

Spec == Init /\ [][Next]_vars

\* detection on every combination of project entries
InitDetect == InitEngine(AllProjects, Manifests)

NextDetect == Detect \/ Finish

SpecDetect == InitDetect /\ [][NextDetect]_vars

\* cleanup on projects with several entries, some of them not removable
InitClean == InitEngine(Projects(MaxPresentClean, Allowed), SampleManifests)

NextClean == Clean \/ CleanAgain \/ Finish

SpecClean == InitClean /\ [][NextClean]_vars

\* every command, on projects with entries whose status cannot be obtained
InitFault == InitEngine(Projects(MaxPresent, AllowedFault), SampleManifests)

SpecFault == InitFault /\ [][Next]_vars

(* ------------------------------ properties ----------------------------- *)
DispatcherOps == {"add", "remove", "sync", "run", "list", "version", "clean"}

DelegatedOps == DispatcherOps \ {"clean"}

Exists(f, e) == f[e] # "absent"

\* the descriptor declared under the given id in initialize_default_backends
DeclaredConfig(id) ==
    LET i == CHOOSE j \in 1..Len(Declared) : Declared[j].config.name = id
    IN  Declared[i].config

HasDetectionFile(f, id) ==
    \E i \in 1..Len(DeclaredConfig(id).detection_files) :
        Exists(f, DeclaredConfig(id).detection_files[i])

HasPattern(content, id) ==
    \E i \in 1..Len(DeclaredConfig(id).detection_patterns) :
        Find(content, Chars(DeclaredConfig(id).detection_patterns[i]))

\* the project gives no signal: no detection file, no pattern in a readable
\* manifest
NoSignal(f, content) ==
    /\ \A id \in Registered : ~HasDetectionFile(f, id)
    /\ ~(f[Manifest] = "present" /\ \E id \in Registered : HasPattern(content, id))

\* the argument list the operation must render, from the declared templates
Rendered(id, o, a) ==
    LET B == DeclaredConfig(id)
    IN  CASE o = "add"     -> (IF a.dev THEN B.add_dev_cmd ELSE B.add_cmd) \o a.args
          [] o = "remove"  -> B.remove_cmd \o a.args
          [] o = "sync"    -> IF a.dev THEN B.sync_dev_cmd ELSE B.sync_cmd
          [] o = "run"     -> B.run_cmd \o a.args
          [] o = "list"    -> B.list_cmd
          [] o = "version" -> B.version_cmd

\* C1: whenever detect runs on a project in which some backend's detection
\* file exists, it returns a backend one of whose detection files exists and
\* never reads the manifest, whatever pyproject.toml contains; a project whose
\* only detection file is uv.lock and whose manifest contains "poetry" is
\* detected as "uv".
C1_LockFilePrecedence ==
    (op = "detect" /\ \E id \in Registered : HasDetectionFile(fs, id)) =>
        /\ resolved \in Registered
        /\ HasDetectionFile(fs, resolved)
        /\ ~readManifest
        /\ (/\ Exists(fs, "uv.lock")
            /\ \A id \in Registered \ {"uv"} : ~HasDetectionFile(fs, id)
            /\ fs[Manifest] = "present"
            /\ Find(manifest, Chars("poetry"))) => resolved = "uv"

C1_Witness ==
    /\ op = "detect"
    /\ Exists(fs, "uv.lock")
    /\ fs[Manifest] = "present"
    /\ Find(manifest, Chars("poetry"))
    /\ resolved = "uv"

\* C2: a dispatcher operation called without a backend hint on a project that
\* gives no signal (no detection file, no manifest pattern) returns
\* success=false, exit_code=1 and the diagnostic "No backend found or
\* specified", starts no subprocess and leaves the project unchanged.
C2_Unresolvable ==
    [][(op' \in DispatcherOps /\ arg'.backend = "" /\ NoSignal(fs, manifest)) =>
          /\ ~escaped'
          /\ res'.success = FALSE
          /\ res'.exit_code = 1
          /\ res'.error = Text("No backend found or specified")
          /\ exec' = <<>>
          /\ fs' = fs]_vars

C2_Witness ==
    /\ op = "run"
    /\ arg.backend = ""
    /\ NoSignal(fs, manifest)
    /\ fs[Manifest] = "present" /\ manifest # <<>>
    /\ ~res.success /\ res.exit_code = 1 /\ exec = <<>>

\* C3: with a non-empty backend hint the resolved id is exactly the hint,
\* whether or not it is registered, no detection probe is made and the manifest
\* is not read; when the hint is registered a delegated operation runs a
\* command that starts with the hint's own template.
C3_HintOverrides ==
    (op \in DispatcherOps /\ arg.backend # "") =>
        /\ resolved = arg.backend
        /\ probes = <<>>
        /\ ~readManifest
        /\ (op \in DelegatedOps /\ arg.backend \in Registered) =>
              LET t == Rendered(arg.backend, op, Arg(arg.backend, arg.dev, <<>>))
              IN  /\ Len(exec) = 1
                  /\ SubSeq(exec[1].command, 1, Len(t)) = t

C3_Witness ==
    /\ op = "run"
    /\ arg.backend = "poetry"
    /\ Exists(fs, "uv.lock")
    /\ resolved = "poetry"
    /\ Len(exec) = 1
    /\ SubSeq(exec[1].command, 1, 2) = <<"poetry", "run">>

\* C4: when the resolved id is not registered, every dispatcher operation
\* returns success=false, exit_code=1 and a diagnostic that names the id,
\* starts no subprocess and deletes nothing.
C4_UnknownBackend ==
    [][(op' \in DispatcherOps /\ resolved' # "" /\ resolved' \notin Registered) =>
          /\ ~escaped'
          /\ res'.success = FALSE
          /\ res'.exit_code = 1
          /\ \E i \in 1..Len(res'.error) :
                \E j \in 1..Len(res'.error[i]) : res'.error[i][j] = resolved'
          /\ exec' = <<>>
          /\ fs' = fs]_vars

C4_Witness ==
    /\ op = "clean"
    /\ arg.backend = "conda"
    /\ resolved = "conda"
    /\ Exists(fs, ".venv")
    /\ res = NotFound("conda")
    /\ exec = <<>>

\* C5: every OperationResult returned by a dispatcher operation has
\* success = (exit_code = 0) and, when success is false, a non-empty diagnostic.
C5_ResultInvariant ==
    (op \in DispatcherOps /\ ~escaped) =>
        /\ res.success = (res.exit_code = 0)
        /\ (~res.success => res.error # <<>>)

\* C6: a delegated operation resolved to a registered backend hands the
\* execution adapter exactly one argument list, the backend's template for the
\* operation followed by the caller's arguments in order; add("requests",
\* dev, "uv") gives uv add --group dev requests and run(pytest -v, "pdm") gives
\* pdm run pytest -v.
C6_Rendering ==
    (op \in DelegatedOps /\ resolved \in Registered) =>
        /\ Len(exec) = 1
        /\ exec[1].command = Rendered(resolved, op, arg)
        /\ (op = "add" /\ arg = Arg("uv", TRUE, <<"requests">>)) =>
              exec[1].command = <<"uv", "add", "--group", "dev", "requests">>
        /\ (op = "add" /\ arg = Arg("uv", FALSE, <<"requests">>)) =>
              exec[1].command = <<"uv", "add", "requests">>
        /\ (op = "run" /\ arg = Arg("pdm", FALSE, <<"pytest", "-v">>)) =>
              exec[1].command = <<"pdm", "run", "pytest", "-v">>

C6_Witness ==
    /\ op = "add"
    /\ arg = Arg("", TRUE, <<"my pkg">>)
    /\ resolved = "uv"
    /\ Len(exec) = 1
    /\ exec[1].command = <<"uv", "add", "--group", "dev", "my pkg">>

\* C7: the child process started for a rendered argument list runs exactly one
\* command whose words are the tokens of that list, character for character.
C7_LiteralTokens ==
    \A i \in 1..Len(exec) :
        exec[i].launched =>
            exec[i].ran = << [k \in 1..Len(exec[i].command) |->
                                 Chars(exec[i].command[k])] >>

\* C8: when the child of a delegated operation exits with code c, the result
\* has exit_code = c and the CLI exits with c.
C8_ExitCodePropagation ==
    (op \in DelegatedOps /\ Len(exec) = 1 /\ exec[1].launched) =>
        /\ res.exit_code = exec[1].exit
        /\ cliExit = exec[1].exit

\* the clean_files of the descriptor that are not absent in f, in declared order
Touched(f, id) ==
    SelectSeq(DeclaredConfig(id).clean_files, LAMBDA e : Exists(f, e))

Removable(f, e) == f[e] \in {"present", "unreadable"}

\* C9: clean on a registered backend visits every cleanup path in declared
\* order: the log has one line per path that is not absent, in that order, a
\* "Removed: <path>" line (and the path is gone) when it could be removed and a
\* "Failed to remove <path>: <reason>" line (and the path stays) when it could
\* not; absent paths give no line; success holds exactly when no path failed,
\* with exit code 0 then and non-zero otherwise.
C9_CleanPartialFailure ==
    [][(op' = "clean" /\ resolved' \in Registered) =>
          LET t == Touched(fs, resolved')
              log == res'.output
          IN  /\ Len(log) = Len(t)
              /\ \A i \in 1..Len(t) :
                    IF Removable(fs, t[i])
                    THEN log[i] = <<"Removed: ", t[i], "\n">> /\ ~Exists(fs', t[i])
                    ELSE /\ Len(log[i]) = 5
                         /\ SubSeq(log[i], 1, 3) = <<"Failed to remove ", t[i], ": ">>
                         /\ log[i][4] # ""
                         /\ fs'[t[i]] = fs[t[i]]
              /\ res'.success = (\A i \in 1..Len(t) : Removable(fs, t[i]))
              /\ (res'.exit_code = 0) = res'.success]_vars

C9_Witness ==
    /\ op = "clean"
    /\ resolved = "poetry"
    /\ Len(res.output) = 2
    /\ res.output[1][1] = "Failed to remove " /\ res.output[1][2] = "poetry.lock"
    /\ res.output[2] = <<"Removed: ", ".venv", "\n">>
    /\ Exists(fs, "poetry.lock") /\ ~Exists(fs, ".venv")
    /\ ~res.success /\ res.exit_code # 0

Templates(B) ==
    {B.add_cmd, B.add_dev_cmd, B.remove_cmd, B.sync_cmd, B.sync_dev_cmd,
     B.run_cmd, B.list_cmd, B.version_cmd}

\* C10: in every reachable state the catalog holds the five declared
\* descriptors hatch, pdm, poetry, rye and uv and nothing else; each is found
\* under its own id, unchanged from its declaration, ids are unique, and no
\* command template is empty.
C10_CatalogInvariant ==
    /\ DOMAIN backends_ = {"hatch", "pdm", "poetry", "rye", "uv"}
    /\ \A i \in 1..Len(Declared) :
          LET D == Declared[i].config
          IN  /\ get_backend(backends_, D.name).found
              /\ get_backend(backends_, D.name).config = D
    /\ \A k \in DOMAIN backends_ :
          /\ backends_[k].name = k
          /\ \A t \in Templates(backends_[k]) : t # <<>>
    /\ \A k1, k2 \in DOMAIN backends_ :
          backends_[k1].name = backends_[k2].name => k1 = k2

C10_Witness ==
    /\ op = "clean"
    /\ resolved = "uv"
    /\ res.success /\ res.output # <<>>
    /\ get_backend(backends_, "uv").config = UvConfig

LookupOps == {"install-cmd", "clean-files"}

DeclaredInstall(id) ==
    IF id \in Registered THEN DeclaredConfig(id).install_url ELSE ""

DeclaredCleanFiles(id) ==
    IF id \in Registered THEN DeclaredConfig(id).clean_files ELSE <<>>

\* C11: install-cmd and clean-files return the declared install_url and the
\* declared clean_files, in declared order, of a registered id, and the empty
\* string and the empty sequence for an unregistered id; they probe no file,
\* do not read the manifest, launch no command and leave the project as it
\* was, so their value is a function of the id and the catalog alone
C11_LookupOnly ==
    [][op' \in LookupOps =>
          /\ op' = "install-cmd" => info'.install = DeclaredInstall(arg'.args[1])
          /\ op' = "clean-files" => info'.files = DeclaredCleanFiles(arg'.args[1])
          /\ probes' = <<>> /\ ~readManifest' /\ resolved' = ""
          /\ exec' = <<>>
          /\ ~escaped'
          /\ fs' = fs /\ manifest' = manifest]_vars

\* clean-files uv was answered in a project that has uv.lock
C11_Witness ==
    /\ op = "clean-files"
    /\ arg.args[1] = "uv"
    /\ info.files = <<"uv.lock", "__pypackages__">>
    /\ fs["uv.lock"] = "present"

EngineOps == DispatcherOps \cup {"detect"}

\* C12: no operation of the Engine (detect, add, remove, sync, run, list,
\* version, clean) lets an exception escape to its caller: a filesystem error
\* met while checking a detection file or the manifest, reading the manifest
\* or deleting a cleanup path is reported through the returned value
C12_NoEscape == op \in EngineOps => ~escaped

\* the ids in ascending lexicographic order, and the files detect may probe,
\* in the order that visiting the descriptors by ascending id gives
LexOrder == <<"hatch", "pdm", "poetry", "rye", "uv">>

ProbeOrder ==
    <<"hatch.lock", "pdm.lock", "poetry.lock", "requirements.lock", "uv.lock",
      "__pypackages__", "pyproject.toml">>

\* the ids that match in the pass that decides
Deciding(f, content) ==
    IF \E id \in Registered : HasDetectionFile(f, id)
    THEN {id \in Registered : HasDetectionFile(f, id)}
    ELSE IF f[Manifest] = "present"
         THEN {id \in Registered : HasPattern(content, id)}
         ELSE {}

Smallest(S) == LexOrder[CHOOSE i \in 1..Len(LexOrder) :
                           /\ LexOrder[i] \in S
                           /\ \A j \in 1..(i - 1) : LexOrder[j] \notin S]

OnlyFiles(f, S) ==
    \A e \in Entries \ {Manifest, ".venv", ".pdm-python"} : Exists(f, e) <=> e \in S

\* C13: detect visits the descriptors by ascending id (hatch, pdm, poetry,
\* rye, uv) in both passes, so its files are probed in that order and, when
\* several backends match in the deciding pass, the lexicographically
\* smallest matching id is returned: pdm.lock with uv.lock (and no other
\* detection file) gives "pdm", a manifest with "[tool.uv]" and "poetry" (the
\* two patterns that match, no detection file) gives "poetry", __pypackages__
\* alone gives "uv"; the result is determined by the project directory, hence
\* the same on every call while it is unchanged
C13_TieBreak ==
    op = "detect" =>
        /\ Len(probes) <= Len(ProbeOrder)
        /\ probes = SubSeq(ProbeOrder, 1, Len(probes))
        /\ IF Deciding(fs, manifest) = {} THEN resolved = ""
           ELSE resolved = Smallest(Deciding(fs, manifest))
        /\ OnlyFiles(fs, {"pdm.lock", "uv.lock"}) => resolved = "pdm"
        /\ (/\ OnlyFiles(fs, {})
            /\ fs[Manifest] = "present"
            /\ Find(manifest, Chars("[tool.uv]"))
            /\ Find(manifest, Chars("poetry"))
            /\ ~Find(manifest, Chars("[tool.hatch"))) => resolved = "poetry"
        /\ (OnlyFiles(fs, {"__pypackages__"}) /\ fs[Manifest] = "absent") =>
               resolved = "uv"

\* detect answered on a manifest that holds the patterns of uv and of poetry
C13_Witness ==
    /\ op = "detect"
    /\ OnlyFiles(fs, {})
    /\ fs[Manifest] = "present"
    /\ Find(manifest, Chars("[tool.uv]"))
    /\ Find(manifest, Chars("poetry"))
    /\ resolved = "poetry"

CleanOps == {"clean", "clean-again"}

CleanupPaths(id) ==
    {DeclaredConfig(id).clean_files[i] : i \in 1..Len(DeclaredConfig(id).clean_files)}

\* what one clean may do to the project: only cleanup paths of the resolved,
\* registered descriptor change, and they change to absent; nothing changes
\* when no registered backend was resolved; no command is launched; after
\* success none of the descriptor's cleanup paths exists
CleanFrame ==
    op' \in CleanOps =>
        /\ \A e \in Entries :
              fs'[e] # fs[e] => /\ resolved' \in Registered
                                /\ e \in CleanupPaths(resolved')
                                /\ fs'[e] = "absent"
        /\ manifest' = manifest
        /\ resolved' \notin Registered => (fs' = fs /\ ~res'.success)
        /\ exec' = <<>>
        /\ res'.success => /\ resolved' \in Registered
                            /\ \A e \in CleanupPaths(resolved') : ~Exists(fs', e)

\* C14 as stated: the frame of clean, and a clean repeated immediately after
\* a clean that returned success=true returns success=true with an empty log
C14_CleanFrameRepeat ==
    [][/\ CleanFrame
       /\ (op = "clean" /\ res.success /\ op' = "clean-again") =>
              (res'.success /\ res'.output = <<>>)]_vars

\* C14 amended: the frame of clean, and a clean repeated immediately after a
\* clean that returned success=true returns success=true with an empty log
\* when it resolves to the same backend, as it does with an explicit hint;
\* otherwise it changes nothing or cleans the backend it now resolves to
C14_CleanFrame ==
    [][/\ CleanFrame
       /\ (op = "clean" /\ res.success /\ op' = "clean-again") =>
              /\ arg.backend # "" => resolved' = resolved
              /\ resolved' = resolved => (res'.success /\ res'.output = <<>> /\ fs' = fs)
              /\ resolved' # resolved => arg.backend = ""]_vars

\* a clean that removed a path was repeated with the same hint and found
\* nothing left to remove
C14_Witness ==
    /\ op = "clean-again"
    /\ arg.backend = "poetry"
    /\ resolved = "poetry"
    /\ res.success
    /\ res.output = <<>>
    /\ Exists(fs, "pdm.lock")
    /\ ~Exists(fs, "poetry.lock")
====
